---- MODULE Spec2Model ----
(***************************************************************************)
(* Model of the HTTP facade in src/api: the three predictor modules        *)
(* (predict.py, predict_v2.py, predict_new.py), the wallet API (wallet.py) *)
(* and the two status endpoints (index.py, test.py).                       *)
(*                                                                         *)
(* JSON / Python values are tagged records; numbers are kept in hundredths *)
(* (0.3 is 30, 20.0 is 2000).  A JSON object is a function from key        *)
(* strings to values.  An operation that can raise returns either          *)
(* [ok |-> TRUE, v |-> value] or [ok |-> FALSE, exc |-> exception name].   *)
(***************************************************************************)
EXTENDS Integers, Sequences, FiniteSets, TLC

VARIABLES pc, request, ml_request, calls, status, written, escaped, earlier

\* earlier is a history variable: the score and level of an assessment an
\* earlier request got from the same server, kept only by Remember below so
\* that two assessments can be compared.  The handlers never read it.
vars == <<pc, request, ml_request, calls, status, written, escaped, earlier>>

-----------------------------------------------------------------------------
(* Values *)

Num(n) == [t |-> "num", n |-> n]
Str(s) == [t |-> "str", s |-> s]
Bool(b) == [t |-> "bool", b |-> b]
Null == [t |-> "null"]
List(xs) == [t |-> "list", items |-> xs]
\* A JSON object used as a value: skeys string keys (as decoded from JSON)
\* and the integer keys later item assignments added, with their values.
Dict(n, f) == [t |-> "dict", skeys |-> n, ikeys |-> f]
\* An f-string: the literal with its holes, and the values formatted into it.
FStr(fmt, args) == [t |-> "fstr", fmt |-> fmt, args |-> args]
\* A key the caller did not send.
Absent == [t |-> "absent"]
Nil == [t |-> "nil"]

Ok(v) == [ok |-> TRUE, v |-> v]
Raise(e) == [ok |-> FALSE, exc |-> e]

\* dict.get(k, default)
Get(d, k, default) == IF k \in DOMAIN d THEN d[k] ELSE default

\* The object holding exactly the keys of the record whose value is sent.
Obj(pairs) == LET ks == {k \in DOMAIN pairs : pairs[k] # Absent}
              IN  [k \in ks |-> pairs[k]]

-----------------------------------------------------------------------------
(* Python built-ins the predictors apply to caller-supplied values *)

\* The decimal literals among the strings the inputs draw from, as float()
\* parses them; float() of any other string of the model raises ValueError.
FloatLiterals == ("15" :> 1500) @@ ("0.5" :> 50)

\* float(v)
PyFloat(v) ==
    CASE v.t = "num"  -> Ok(v)
      [] v.t = "bool" -> Ok(Num(IF v.b THEN 100 ELSE 0))
      [] v.t = "str"  -> IF v.s \in DOMAIN FloatLiterals
                         THEN Ok(Num(FloatLiterals[v.s]))
                         ELSE Raise("ValueError")
      [] OTHER        -> Raise("TypeError")

\* len(v)
PyLen(v) ==
    CASE v.t = "list" -> Ok(Len(v.items))
      [] v.t = "dict" -> Ok(v.skeys + Cardinality(DOMAIN v.ikeys))
      [] v.t = "str"  -> Ok(Len(v.s))
      [] OTHER        -> Raise("TypeError")

\* bool(v)
PyBool(v) ==
    CASE v.t = "bool" -> v.b
      [] v.t = "num"  -> v.n # 0
      [] v.t = "str"  -> v.s # ""
      [] v.t = "list" -> Len(v.items) > 0
      [] v.t = "dict" -> v.skeys + Cardinality(DOMAIN v.ikeys) > 0
      [] OTHER        -> FALSE

\* v > n  (n in hundredths)
PyGt(v, n) ==
    CASE v.t = "num"  -> Ok(v.n > n)
      [] v.t = "bool" -> Ok((IF v.b THEN 100 ELSE 0) > n)
      [] OTHER        -> Raise("TypeError")

\* c[i] = x for the 0-based index i
PySetItem(c, i, x) ==
    CASE c.t = "list" -> IF i < Len(c.items)
                         THEN Ok(List([c.items EXCEPT ![i + 1] = x]))
                         ELSE Raise("IndexError")
      [] c.t = "dict" -> Ok(Dict(c.skeys,
                                 [k \in DOMAIN c.ikeys \cup {i} |->
                                     IF k = i THEN x ELSE c.ikeys[k]]))
      [] OTHER        -> Raise("TypeError")

\* c[i] as the upstream reads it from the serialized payload
Slot(c, i) ==
    CASE c.t = "list" -> IF i < Len(c.items) THEN c.items[i + 1] ELSE Absent
      [] c.t = "dict" -> IF i \in DOMAIN c.ikeys THEN c.ikeys[i] ELSE Absent
      [] OTHER        -> Absent

-----------------------------------------------------------------------------
(* Program constants (scores, prices and thresholds in hundredths) *)

NumFeatures == 18
NumNumeric == 16
DefaultGasPrice == 2000
SlotValueV1 == 13
SlotGasV1 == 14
SlotValueV2 == 0
SlotGasV2 == 1
TimeoutV1 == 30
TimeoutFirst == 10
TimeoutRetry == 20
TimeoutNew == 10
HttpOk == 200
\* requests.post without a timeout argument waits without limit.
NoTimeout == 0

RequiredKeys == {"from_address", "to_address", "transaction_value", "features"}

\* [0.0] * 16 + ["", ""]
DefaultFeatures ==
    List([i \in 1..NumFeatures |-> IF i <= NumNumeric THEN Num(0) ELSE Str("")])

\* The feature slots each predictor writes transaction_value and gas_price to.
SlotValue(ep) == IF ep = "predict" THEN SlotValueV1 ELSE SlotValueV2
SlotGas(ep) == IF ep = "predict" THEN SlotGasV1 ELSE SlotGasV2

-----------------------------------------------------------------------------
(* Normalization: TransactionPredictor.predict up to the upstream call *)

\* The payload in the shape of the external API: the caller's mapping itself
\* when it has the four required keys, else a mapping built from it.
ShapeConvert(td) ==
    IF RequiredKeys \subseteq DOMAIN td
    THEN Ok(td)
    ELSE LET tv == PyFloat(Get(td, "transaction_value",
                               Get(td, "value", Num(0))))
             gp == PyFloat(Get(td, "gas_price", Num(DefaultGasPrice)))
         IN  IF ~tv.ok THEN tv
             ELSE IF ~gp.ok THEN gp
             ELSE Ok([from_address |-> Get(td, "from_address", Str("")),
                      to_address |-> Get(td, "to_address", Str("")),
                      transaction_value |-> tv.v,
                      gas_price |-> gp.v,
                      is_contract_interaction |->
                          Bool(PyBool(Get(td, "is_contract_interaction",
                                          Get(td, "is_contract", Bool(FALSE))))),
                      acc_holder |->
                          Get(td, "acc_holder",
                              Get(td, "from_address", Str(""))),
                      features |-> Get(td, "features", DefaultFeatures)])

\* "Ensure features is correct length"
RepairLength(req) ==
    LET n == PyLen(req["features"])
    IN  IF ~n.ok THEN n
        ELSE IF n.v # NumFeatures
             THEN Ok([req EXCEPT !["features"] = DefaultFeatures])
             ELSE Ok(req)

\* OverwriteSlots without its second assignment: gas_price is not written.
OverwriteSkipsGas(ep, req) ==
    LET tv == PyFloat(Get(req, "transaction_value", Num(0)))
    IN  IF ~tv.ok THEN tv
        ELSE LET f1 == PySetItem(req["features"], SlotValue(ep), tv.v)
             IN  IF ~f1.ok THEN f1
                 ELSE Ok([req EXCEPT !["features"] = f1.v])

\* "Make sure transaction value and gas price are in the features array"
OverwriteSlots(ep, req) ==
    LET tv == PyFloat(Get(req, "transaction_value", Num(0)))
    IN  IF ~tv.ok THEN tv
        ELSE LET f1 == PySetItem(req["features"], SlotValue(ep), tv.v)
             IN  IF ~f1.ok THEN f1
                 ELSE LET gp == PyFloat(Get(req, "gas_price",
                                            Num(DefaultGasPrice)))
                      IN  IF ~gp.ok THEN gp
                          ELSE LET f2 == PySetItem(f1.v, SlotGas(ep), gp.v)
                               IN  IF ~f2.ok THEN f2
                                   ELSE Ok([req EXCEPT !["features"] = f2.v])

\* Lines 19-39 of predict.py and predict_v2.py on a decoded request body.  A
\* body that is no JSON object raises on the key test or on .get.
Normalize(ep, body) ==
    IF body.t # "obj" THEN Raise(IF body.t = "list" THEN "AttributeError"
                                                    ELSE "TypeError")
    ELSE LET a == ShapeConvert(body.m)
         IN  IF ~a.ok THEN a
             ELSE LET b == RepairLength(a.v)
                  IN  IF ~b.ok THEN b ELSE OverwriteSlots(ep, b.v)

-----------------------------------------------------------------------------
(* Assessments: the objects TransactionPredictor.predict returns *)

ScoreTimeoutBase == 30
ScoreContract == 45
ScoreLargeStep == 15
ScoreLargeCap == 60
ScoreError == 50
ScoreFraud == 90
ScoreDefault == 10
LargeValue == 1000
ThresholdHigh == 70
ThresholdMedium == 40

JObj(m) == [t |-> "obj", m |-> m]
Min(a, b) == IF a < b THEN a ELSE b

\* predict.py, predict_new.py: the outermost except
ConnectionErrorResult(exc) ==
    JObj([error |-> FStr("Connection Error: {}", <<Str(exc)>>),
          risk_score |-> Num(ScoreError),
          risk_level |-> Str("MEDIUM"),
          factors |-> List(<<Str("Failed to connect to external ML API")>>)])

\* predict.py, predict_new.py: a status other than 200
ApiErrorResult(code) ==
    JObj([error |-> FStr("API Error: {}", <<Num(code)>>),
          risk_score |-> Num(ScoreError),
          risk_level |-> Str("MEDIUM"),
          factors |-> List(<<Str("External ML API unavailable")>>)])

\* predict.py: the timeout of its single attempt
TimeoutResultV1 ==
    JObj([prediction |-> Str("Unknown"),
          risk_score |-> Num(ScoreTimeoutBase),
          risk_level |-> Str("MEDIUM-LOW"),
          explanation |->
              Str("ML API timed out. Using fallback risk assessment."),
          timeout |-> Bool(TRUE)])

\* predict.py: a 200 whose body decoded to the object m
SuccessResultV1(m) ==
    LET fraud == Get(m, "prediction", Null) = Str("Fraud")
    IN  JObj([external_prediction |-> JObj(m),
              prediction |-> Get(m, "prediction", Str("Unknown")),
              type |-> Get(m, "Type", Str("Unknown")),
              risk_score |-> Num(IF fraud THEN ScoreFraud ELSE ScoreDefault),
              risk_level |-> Str(IF fraud THEN "HIGH" ELSE "LOW"),
              explanation |->
                  FStr("Transaction prediction: {}, Type: {}",
                       <<Get(m, "prediction", Str("Unknown")),
                         Get(m, "Type", Str("Unknown"))>>)])

\* predict_v2.py: the outermost except
UnexpectedErrorResult(exc) ==
    JObj([error |-> FStr("Unexpected error: {}", <<Str(exc)>>),
          risk_score |-> Num(ScoreError),
          risk_level |-> Str("MEDIUM"),
          explanation |->
              Str("An unexpected error occurred. Using cautious assessment."),
          error_type |-> Str(exc)])

\* predict_v2.py: a RequestException other than a timeout, on either attempt
RequestErrorResult(exc) ==
    JObj([error |-> FStr("ML API Error: {}", <<Str(exc)>>),
          risk_score |-> Num(ScoreError),
          risk_level |-> Str("MEDIUM"),
          explanation |->
              Str("ML service connection error. Using cautious assessment."),
          error_type |-> Str(exc)])

\* predict_v2.py: a 200 whose body is no JSON
InvalidResponseResult ==
    JObj([error |-> Str("Invalid response from ML API (JSON parsing error)"),
          risk_score |-> Num(ScoreError),
          risk_level |-> Str("MEDIUM"),
          explanation |->
              Str("ML service returned an invalid response. Using cautious assessment.")])

\* predict_v2.py: a status other than 200
ApiErrorResultV2(code) ==
    JObj([error |-> FStr("API Error: {}", <<Num(code)>>),
          risk_score |-> Num(ScoreError),
          risk_level |-> Str("MEDIUM"),
          explanation |->
              FStr("ML service error (HTTP {}). Using cautious assessment.",
                   <<Num(code)>>)])

\* predict_v2.py: both attempts timed out
TimeoutResultV2(req) ==
    LET contract ==
            PyBool(Get(req, "is_contract_interaction", Bool(FALSE)))
        large == PyGt(Get(req, "transaction_value", Num(0)), LargeValue)
        s1 == IF contract THEN ScoreContract ELSE ScoreTimeoutBase
    IN  IF ~large.ok THEN UnexpectedErrorResult(large.exc)
        ELSE JObj([prediction |-> Str("Unknown"),
                   risk_score |->
                       Num(IF large.v THEN Min(ScoreLargeCap, s1 + ScoreLargeStep)
                                      ELSE s1),
                   risk_level |->
                       Str(IF large.v THEN "MEDIUM-HIGH"
                           ELSE IF contract THEN "MEDIUM" ELSE "MEDIUM-LOW"),
                   explanation |->
                       Str("ML API timed out. Using fallback risk assessment."
                           \o (IF contract THEN " Contract interaction detected."
                                           ELSE "")
                           \o (IF large.v THEN " Large transaction value."
                                          ELSE "")),
                   timeout |-> Bool(TRUE),
                   fallback_assessment |-> Bool(TRUE)])

\* predict_v2.py: a 200 whose body decoded to the object m
SuccessResultV2(m) ==
    LET risk_score == Get(m, "risk_score", Num(ScoreDefault))
        high == PyGt(risk_score, ThresholdHigh)
        medium == PyGt(risk_score, ThresholdMedium)
    IN  IF ~high.ok THEN UnexpectedErrorResult(high.exc)
        ELSE JObj([prediction |-> Get(m, "prediction", Num(0)),
                   risk_score |-> risk_score,
                   risk_level |->
                       Str(IF high.v THEN "HIGH"
                           ELSE IF medium.v THEN "MEDIUM" ELSE "LOW"),
                   features |-> Get(m, "features", List(<<>>)),
                   explanation |->
                       FStr("Transaction risk score: {}", <<risk_score>>),
                   success |-> Bool(TRUE)])

-----------------------------------------------------------------------------
(* What the external ML API can answer to one requests.post *)

TimedOut == [kind |-> "timeout"]
ConnectionFailed == [kind |-> "connerr"]
Http(code, body) == [kind |-> "http", code |-> code, body |-> body]
\* A response body that is not JSON.
NotJson == [t |-> "notjson"]

\* predict.py after its single attempt ended in outcome o
RespondV1(o) ==
    CASE o.kind = "timeout" -> TimeoutResultV1
      [] o.kind = "connerr" -> ConnectionErrorResult("ConnectionError")
      [] o.kind = "http" ->
            IF o.code # HttpOk THEN ApiErrorResult(o.code)
            ELSE IF o.body.t = "notjson"
                 THEN ConnectionErrorResult("JSONDecodeError")
            ELSE IF o.body.t # "obj"
                 THEN ConnectionErrorResult("AttributeError")
            ELSE SuccessResultV1(o.body.m)

\* predict_v2.py once an attempt returned a response
RespondV2(o) ==
    IF o.code # HttpOk THEN ApiErrorResultV2(o.code)
    ELSE IF o.body.t = "notjson" THEN InvalidResponseResult
    ELSE IF o.body.t # "obj" THEN UnexpectedErrorResult("AttributeError")
    ELSE SuccessResultV2(o.body.m)

\* predict_new.py after its single attempt ended in outcome o
RespondNew(o) ==
    CASE o.kind \in {"timeout", "connerr"} ->
            ConnectionErrorResult(IF o.kind = "timeout" THEN "ReadTimeout"
                                                        ELSE "ConnectionError")
      [] o.kind = "http" ->
            IF o.code # HttpOk THEN ApiErrorResult(o.code)
            ELSE IF o.body.t = "notjson"
                 THEN ConnectionErrorResult("JSONDecodeError")
            ELSE o.body

\* wallet.py analyze_transaction, whose post has no timeout
AnalyzeResult(o) ==
    CASE o.kind = "connerr" ->
            JObj([error |-> FStr("Error calling ML model: {}",
                                 <<Str("ConnectionError")>>)])
      [] o.kind = "http" ->
            IF o.code # HttpOk
            THEN JObj([error |-> FStr("ML model API error: {}", <<Num(o.code)>>),
                       details |-> Str("response.text")])
            ELSE IF o.body.t = "notjson"
                 THEN JObj([error |-> FStr("Error calling ML model: {}",
                                           <<Str("JSONDecodeError")>>)])
            ELSE o.body

\* The except clause of the predict handlers' do_POST
HandlerError(exc) ==
    JObj([error |-> Str("Prediction error"), details |-> Str(exc)])

\* What predict returns when normalization raised exc
NormalizeError(ep, exc) ==
    IF ep = "predict_v2" THEN UnexpectedErrorResult(exc)
                         ELSE ConnectionErrorResult(exc)

-----------------------------------------------------------------------------
(* The requests and upstream answers the model draws from *)

\* The longest features list a caller sends.
MaxFeaturesLen == 30

Addr == Str("0x742d")
Holder == Str("0x8ba1")

\* A list of n stale numbers.
StaleList(n) == List([i \in 1..n |-> Num(700)])
\* 16 numbers and 2 strings, as the external API expects them.
WellTyped == List([i \in 1..NumFeatures |->
                      IF i <= NumNumeric THEN Num(700) ELSE Str("erc20")])
\* 18 entries with a string in numeric slot 5 and a number in string slot 17.
IllTyped == List([i \in 1..NumFeatures |->
                     IF i = 6 THEN Str("n/a")
                     ELSE IF i = 18 THEN Num(700)
                     ELSE WellTyped.items[i]])

FeatureInputs ==
    {Absent, WellTyped, IllTyped, Null, Str("0123456789abcdefgh"),
     Dict(NumFeatures, <<>>)}
    \cup {StaleList(n) : n \in {0, NumFeatures - 1, NumFeatures + 1,
                                MaxFeaturesLen}}
\* transaction_value and its legacy alias value
ValueInputs ==
    {<<Absent, Absent>>, <<Absent, Num(1500)>>, <<Num(100), Absent>>,
     <<Num(100), Num(1500)>>, <<Num(1500), Absent>>, <<Str("15"), Absent>>,
     <<Str("abc"), Absent>>}
GasInputs == {Absent, Num(3000), Str("fast")}
\* is_contract_interaction and its legacy alias is_contract
ContractInputs ==
    {<<Absent, Absent>>, <<Bool(TRUE), Absent>>, <<Bool(FALSE), Bool(TRUE)>>,
     <<Absent, Bool(TRUE)>>}
\* from_address, to_address and acc_holder
AddressInputs ==
    {<<Addr, Addr, Holder>>, <<Addr, Addr, Absent>>, <<Addr, Absent, Absent>>,
     <<Absent, Absent, Absent>>}

\* The JSON objects a caller posts to a predict endpoint.
TransactionInputs ==
    {JObj(Obj([from_address |-> a[1], to_address |-> a[2],
               transaction_value |-> tv[1], value |-> tv[2], gas_price |-> gp,
               is_contract_interaction |-> ci[1], is_contract |-> ci[2],
               acc_holder |-> a[3], features |-> f])) :
        a \in AddressInputs, tv \in ValueInputs, gp \in GasInputs,
        ci \in ContractInputs, f \in FeatureInputs}

\* What json.loads makes of a request body: a value, or one of its two errors.
Malformed == [t |-> "malformed"]
BadUtf8 == [t |-> "badutf8"]
OtherBodies == {Malformed, BadUtf8, List(<<Num(100)>>)}
\* predict_new.py and wallet.py forward the body as it is: a few suffice.
ForwardedBodies ==
    {JObj(Obj([from_address |-> Addr, to_address |-> Addr,
               transaction_value |-> tv, features |-> f])) :
        tv \in {Num(100), Str("15")}, f \in {Absent, WellTyped}}
BodyInputs == TransactionInputs \cup OtherBodies
LoadsError(body) ==
    CASE body.t = "malformed" -> "JSONDecodeError"
      [] body.t = "badutf8" -> "UnicodeDecodeError"
      [] OTHER -> "none"

\* The Content-Length header: missing, not a number, or the body's length.
ContentLengthInputs == {"absent", "invalid", "valid"}
IntError(cl) ==
    CASE cl = "absent" -> "TypeError"
      [] cl = "invalid" -> "ValueError"
      [] OTHER -> "none"

\* 200 bodies in both response shapes of the external API, and bodies with
\* a risk_score on each side of the thresholds, out of range or no number.
UpstreamBodies ==
    {JObj([prediction |-> Str("Fraud")]),
     JObj([prediction |-> Str("Legit"), Type |-> Str("Normal")]),
     JObj([prediction |-> Num(100), risk_score |-> Num(55)]),
     JObj([prediction |-> Num(0), risk_score |-> Num(10),
           features |-> StaleList(2)]),
     JObj(<<>>), NotJson, List(<<Num(100)>>)}
    \cup {JObj([risk_score |-> r]) :
            r \in {Num(40), Num(41), Num(70), Num(71), Num(150), Num(-20),
                   Str("high"), Null}}
UpstreamOutcomes ==
    {TimedOut, ConnectionFailed, Http(500, NotJson)}
    \cup {Http(HttpOk, b) : b \in UpstreamBodies}

\* A POST: its Content-Length and its body, which is only read when the
\* header is a number.
PostInputs(bodies) ==
    {<<"absent", Malformed>>, <<"invalid", Malformed>>}
    \cup {<<"valid", b>> : b \in bodies}

\* A transactions row, with its created_at column as psycopg2 returns a
\* timestamp column or as text.
Row(created) == JObj([from_address |-> Addr, to_address |-> Addr,
                      created_at |-> created])
DatabaseOutcomes ==
    {[kind |-> "connect_failed"], [kind |-> "query_error"],
     [kind |-> "rows", transactions |-> <<>>, analytics |-> Null],
     [kind |-> "rows", transactions |-> <<Row(Str("2024-01-01"))>>,
      analytics |-> JObj([address |-> Addr, risk |-> Num(10)])],
     [kind |-> "rows", transactions |-> <<Row([t |-> "datetime"])>>,
      analytics |-> Null]}

-----------------------------------------------------------------------------
(* State *)

Ready == pc = "idle"

Init ==
    /\ pc = "idle"
    /\ request = Nil
    /\ ml_request = Nil
    /\ calls = <<>>
    /\ status = 0
    /\ written = <<>>
    /\ escaped = "none"
    /\ earlier = Nil

\* exc left the handler method before any body was written, with the
\* status line sent (sent = HttpOk) or not sent (sent = 0).
Crash(req, sent, exc) ==
    /\ pc' = "crashed"
    /\ request' = req
    /\ ml_request' = Nil
    /\ calls' = <<>>
    /\ status' = sent
    /\ written' = <<>>
    /\ escaped' = exc
    /\ UNCHANGED earlier

\* The handler sent its 200 and wrote body.
Reply(req, body) ==
    /\ pc' = "done"
    /\ request' = req
    /\ ml_request' = Nil
    /\ calls' = <<>>
    /\ status' = HttpOk
    /\ written' = <<body>>
    /\ escaped' = "none"
    /\ UNCHANGED earlier

\* The handler sent its 200 and blocks in requests.post with payload.
Post(req, at, payload) ==
    /\ pc' = at
    /\ request' = req
    /\ ml_request' = payload
    /\ calls' = <<>>
    /\ status' = HttpOk
    /\ written' = <<>>
    /\ escaped' = "none"
    /\ UNCHANGED earlier

\* The pending post ended in outcome o and predict returned result.
Return(timeout, o, result) ==
    /\ pc' = "done"
    /\ calls' = Append(calls, [timeout |-> timeout, payload |-> ml_request,
                               outcome |-> o])
    /\ written' = Append(written, result)
    /\ UNCHANGED <<request, ml_request, status, escaped, earlier>>

\* do_POST of predict.py, predict_v2.py and predict_new.py, to the point
\* where predict blocks in its first requests.post or returns.
DoPostPredict(ep, cl, body) ==
    /\ Ready
    /\ LET req == [method |-> "POST", endpoint |-> ep, cl |-> cl, body |-> body]
       IN  IF IntError(cl) # "none" THEN Crash(req, 0, IntError(cl))
           ELSE IF LoadsError(body) # "none"
                THEN Reply(req, HandlerError(LoadsError(body)))
           ELSE IF ep = "predict_new" THEN Post(req, "attempt1", body)
           ELSE LET n == Normalize(ep, body)
                IN  IF n.ok THEN Post(req, "attempt1", JObj(n.v))
                    ELSE Reply(req, NormalizeError(ep, n.exc))

\* The single attempt of predict.py ends.
ReplyV1(o) ==
    /\ pc = "attempt1"
    /\ request.endpoint = "predict"
    /\ Return(TimeoutV1, o, RespondV1(o))

\* The single attempt of predict_new.py ends.
ReplyNew(o) ==
    /\ pc = "attempt1"
    /\ request.endpoint = "predict_new"
    /\ Return(TimeoutNew, o, RespondNew(o))

\* ReplyFirstV2 with the retry also started by a transport error.
RetriesOnError(o) ==
    /\ pc = "attempt1"
    /\ request.endpoint = "predict_v2"
    /\ IF o.kind \in {"timeout", "connerr"}
       THEN /\ pc' = "attempt2"
            /\ calls' = Append(calls, [timeout |-> TimeoutFirst,
                                       payload |-> ml_request, outcome |-> o])
            /\ UNCHANGED <<request, ml_request, status, written, escaped, earlier>>
       ELSE Return(TimeoutFirst, o, RespondV2(o))

\* The first attempt of predict_v2.py ends: a timeout starts the retry.
ReplyFirstV2(o) ==
    /\ pc = "attempt1"
    /\ request.endpoint = "predict_v2"
    /\ IF o.kind = "timeout"
       THEN /\ pc' = "attempt2"
            /\ calls' = Append(calls, [timeout |-> TimeoutFirst,
                                       payload |-> ml_request, outcome |-> o])
            /\ UNCHANGED <<request, ml_request, status, written, escaped, earlier>>
       ELSE IF o.kind = "connerr"
            THEN Return(TimeoutFirst, o, RequestErrorResult("ConnectionError"))
       ELSE Return(TimeoutFirst, o, RespondV2(o))

\* ReplyRetryV2 with every exception of the retry handled as a timeout.
RetryErrorFallsBack(o) ==
    /\ pc = "attempt2"
    /\ IF o.kind \in {"timeout", "connerr"}
       THEN Return(TimeoutRetry, o, TimeoutResultV2(ml_request.m))
       ELSE Return(TimeoutRetry, o, RespondV2(o))

\* The second attempt of predict_v2.py ends.
ReplyRetryV2(o) ==
    /\ pc = "attempt2"
    /\ IF o.kind = "timeout"
       THEN Return(TimeoutRetry, o, TimeoutResultV2(ml_request.m))
       ELSE IF o.kind = "connerr"
            THEN Return(TimeoutRetry, o, RequestErrorResult("ConnectionError"))
       ELSE Return(TimeoutRetry, o, RespondV2(o))

\* do_OPTIONS of predict.py and predict_v2.py: headers only.
DoOptions(ep) ==
    /\ Ready
    /\ pc' = "done"
    /\ request' = [method |-> "OPTIONS", endpoint |-> ep]
    /\ ml_request' = Nil
    /\ calls' = <<>>
    /\ status' = HttpOk
    /\ written' = <<>>
    /\ escaped' = "none"
    /\ UNCHANGED earlier

\* do_POST of wallet.py, to the point where analyze_transaction blocks in
\* requests.post or the handler returns.  Only JSONDecodeError is caught.
DoPostWallet(path, cl, body) ==
    /\ Ready
    /\ LET req == [method |-> "POST", endpoint |-> "wallet", path |-> path,
                   cl |-> cl, body |-> body]
       IN  IF IntError(cl) # "none" THEN Crash(req, 0, IntError(cl))
           ELSE IF LoadsError(body) = "JSONDecodeError"
                THEN Reply(req, JObj([error |->
                                        Str("Invalid JSON in request body")]))
           ELSE IF LoadsError(body) # "none"
                THEN Crash(req, HttpOk, LoadsError(body))
           ELSE IF path = "/api/analyze" THEN Post(req, "analyze", body)
           ELSE Reply(req, JObj([error |-> Str("Endpoint not found")]))

\* The post of analyze_transaction ends.
ReplyAnalyze(o) ==
    /\ pc = "analyze"
    /\ o.kind # "timeout"
    /\ Return(NoTimeout, o, AnalyzeResult(o))

\* get_wallet_info on the database outcome db
WalletInfo(address, db) ==
    CASE db.kind = "connect_failed" ->
            JObj([error |-> Str("Database connection failed")])
      [] db.kind = "query_error" ->
            JObj([error |-> FStr("Database query error: {}",
                                 <<Str("ProgrammingError")>>)])
      [] db.kind = "rows" ->
            JObj([address |-> address,
                  transactions |-> List(db.transactions),
                  analytics |-> db.analytics])

\* json.dumps raises TypeError on a value holding a datetime.
Serializable(v) ==
    CASE v.t = "obj" ->
            \A k \in DOMAIN v.m :
                /\ v.m[k].t # "datetime"
                /\ v.m[k].t = "list" =>
                      \A i \in DOMAIN v.m[k].items :
                          \A c \in DOMAIN v.m[k].items[i].m :
                              v.m[k].items[i].m[c].t # "datetime"
                /\ v.m[k].t = "obj" =>
                      \A c \in DOMAIN v.m[k].m : v.m[k].m[c].t # "datetime"
      [] OTHER -> TRUE

\* do_GET of wallet.py
DoGetWallet(path, address, db) ==
    /\ Ready
    /\ LET req == [method |-> "GET", endpoint |-> "wallet", path |-> path,
                   address |-> address, db |-> db]
           response ==
               IF path # "/api/wallet"
               THEN JObj([message |-> Str("Welcome to the Wallet API"),
                          endpoints |-> Str("...")])
               ELSE IF address \in {Absent, Str("")}
                    THEN JObj([error |->
                                 Str("Wallet address parameter is required")])
               ELSE WalletInfo(address, db)
       IN  IF Serializable(response) THEN Reply(req, response)
           ELSE Crash(req, HttpOk, "TypeError")

\* do_GET of index.py and test.py
DoGetStatus(ep) ==
    /\ Ready
    /\ Reply([method |-> "GET", endpoint |-> ep],
             JObj([message |-> Str(IF ep = "index"
                                   THEN "UnhackableWallet API is running"
                                   ELSE "API is working")]))

\* The handler returned or raised: the server waits for the next request,
\* which a new handler object serves.
Close ==
    /\ pc \in {"done", "crashed"}
    /\ pc' = "idle"
    /\ request' = Nil
    /\ ml_request' = Nil
    /\ calls' = <<>>
    /\ status' = 0
    /\ written' = <<>>
    /\ escaped' = "none"
    /\ UNCHANGED earlier

Next ==
    \/ /\ Ready
       /\ \E ep \in {"predict", "predict_v2"}, r \in PostInputs(BodyInputs) :
            DoPostPredict(ep, r[1], r[2])
    \/ /\ Ready
       /\ \E r \in PostInputs(ForwardedBodies \cup OtherBodies) :
            DoPostPredict("predict_new", r[1], r[2])
    \/ /\ Ready
       /\ \E path \in {"/api/analyze", "/api/other"},
             r \in PostInputs(ForwardedBodies \cup OtherBodies) :
            DoPostWallet(path, r[1], r[2])
    \/ \E o \in UpstreamOutcomes : ReplyAnalyze(o)
    \/ \E path \in {"/", "/api/wallet"}, address \in {Absent, Str(""), Addr},
          db \in DatabaseOutcomes : DoGetWallet(path, address, db)
    \/ \E ep \in {"index", "test"} : DoGetStatus(ep)
    \/ Close
    \/ \E o \in UpstreamOutcomes : ReplyV1(o)
    \/ \E o \in UpstreamOutcomes : ReplyNew(o)
    \/ \E o \in UpstreamOutcomes : ReplyFirstV2(o)
    \/ \E o \in UpstreamOutcomes : ReplyRetryV2(o)
    \/ \E ep \in {"predict", "predict_v2"} : DoOptions(ep)

Spec == Init /\ [][Next]_vars

-----------------------------------------------------------------------------
(* Properties *)

Normalizing == {"predict", "predict_v2"}
Predictors == {"predict", "predict_v2", "predict_new"}
Levels == {"LOW", "MEDIUM-LOW", "MEDIUM", "MEDIUM-HIGH", "HIGH"}

\* A requests.post of endpoint set eps is pending.
InFlight(eps) == pc \in {"attempt1", "attempt2"} /\ request.endpoint \in eps
\* predict of endpoint set eps returned after at least one upstream call.
Delivered(eps) ==
    pc = "done" /\ request.endpoint \in eps /\ Len(calls) > 0
LastCall == calls[Len(calls)]
Result == written[Len(written)]
\* The request took the already-canonical fast path.
FastPath == request.body.t = "obj" /\ RequiredKeys \subseteq DOMAIN request.body.m

\* C1: the features of every payload sent upstream by predict.py and
\* predict_v2.py is a list of exactly 18 entries, entries 0-15 numbers and
\* entries 16-17 strings, whatever features the caller supplied.
C1_FeatureVectorShape ==
    InFlight(Normalizing) =>
        LET f == ml_request.m["features"]
        IN  /\ f.t = "list"
            /\ Len(f.items) = 18
            /\ \A i \in 1..16 : f.items[i].t = "num"
            /\ \A i \in 17..18 : f.items[i].t = "str"

\* Slots a and b of the payload's features hold float(transaction_value) and
\* float(gas_price or 20.0) of the same payload.
SlotsAgree(payload, a, b) ==
    LET tv == PyFloat(payload["transaction_value"])
        gp == PyFloat(IF "gas_price" \in DOMAIN payload
                      THEN payload["gas_price"] ELSE Num(2000))
    IN  /\ tv.ok /\ gp.ok
        /\ tv.v.t = "num" /\ gp.v.t = "num"
        /\ Slot(payload["features"], a) = tv.v
        /\ Slot(payload["features"], b) = gp.v

\* C2: in every payload sent upstream, slots 13 and 14 (predict.py) or 0 and
\* 1 (predict_v2.py) of features equal float(transaction_value) and
\* float(gas_price) of that payload, gas_price being 20.0 when absent.
C2_OverwriteGuarantee ==
    /\ InFlight({"predict"}) => SlotsAgree(ml_request.m, 13, 14)
    /\ InFlight({"predict_v2"}) => SlotsAgree(ml_request.m, 0, 1)

\* C2 witness: a fast-path payload goes out whose caller-supplied features
\* held stale numbers in the designated slots.
C2_Witness ==
    /\ InFlight({"predict"})
    /\ FastPath
    /\ request.body.m["features"] = WellTyped
    /\ request.body.m["transaction_value"] = Str("15")
    /\ "gas_price" \notin DOMAIN request.body.m
    /\ Slot(ml_request.m["features"], 13) = Num(1500)
    /\ Slot(ml_request.m["features"], 14) = Num(2000)

\* C3: normalizing the payload that normalization produced yields that
\* payload again, every field and every features slot equal.
C3_IdempotentNormalization ==
    InFlight(Normalizing) =>
        Normalize(request.endpoint, ml_request) = Ok(ml_request.m)

\* Every upstream attempt of the request timed out.
AllTimedOut == \A i \in DOMAIN calls : calls[i].outcome.kind = "timeout"

\* The assessment the fallback rules give a payload: 0.3 / MEDIUM-LOW, 0.45 /
\* MEDIUM for a contract interaction, +0.15 capped at 0.6 / MEDIUM-HIGH for a
\* value above 10, the contract clause before the large-value clause.
FallbackRule(payload) ==
    LET contract ==
            "is_contract_interaction" \in DOMAIN payload
            /\ payload["is_contract_interaction"] = Bool(TRUE)
        large == PyFloat(payload["transaction_value"]).v.n > 1000
        base == IF contract THEN 45 ELSE 30
    IN  [risk_score |-> Num(IF large THEN (IF base + 15 > 60 THEN 60
                                                             ELSE base + 15)
                                     ELSE base),
         risk_level |-> Str(IF large THEN "MEDIUM-HIGH"
                            ELSE IF contract THEN "MEDIUM" ELSE "MEDIUM-LOW"),
         explanation |->
             Str("ML API timed out. Using fallback risk assessment."
                 \o (IF contract THEN " Contract interaction detected." ELSE "")
                 \o (IF large THEN " Large transaction value." ELSE ""))]

\* C4: when every attempt of predict.py or predict_v2.py timed out, the
\* returned risk_score, risk_level and explanation are the ones the fallback
\* rules give the normalized transaction.
C4_TimeoutFallbackScaled ==
    (Delivered(Normalizing) /\ AllTimedOut) =>
        LET want == FallbackRule(LastCall.payload.m)
        IN  /\ Result.t = "obj"
            /\ {"risk_score", "risk_level", "explanation"} \subseteq DOMAIN Result.m
            /\ Result.m["risk_score"] = want.risk_score
            /\ Result.m["risk_level"] = want.risk_level
            /\ Result.m["explanation"] = want.explanation

\* C5: predict_v2.py makes at most two upstream calls, the second one (with
\* timeout 20 after 10) exactly when the first one timed out and with the
\* same payload, and a 200 on the second call gives the success result.
C5_TimeoutTiering ==
    (pc \in {"attempt1", "attempt2", "done"}
     /\ request.endpoint = "predict_v2") =>
        /\ Len(calls) <= 2
        /\ pc = "attempt1" => calls = <<>>
        /\ pc = "attempt2" => Len(calls) = 1
        /\ Len(calls) >= 1 =>
              /\ calls[1].timeout = 10
              /\ (calls[1].outcome.kind = "timeout") =
                    (pc = "attempt2" \/ Len(calls) = 2)
        /\ Len(calls) = 2 =>
              /\ calls[2].timeout = 20
              /\ calls[2].payload = calls[1].payload
        /\ (pc = "done" /\ Len(calls) >= 1) =>
              /\ Len(written) = 1
              /\ ("timeout" \in DOMAIN Result.m) =>
                    (LastCall.outcome.kind = "timeout")
              /\ (LastCall.outcome.kind = "http"
                  /\ LastCall.outcome.code = 200
                  /\ LastCall.outcome.body.t = "obj"
                  /\ Get(LastCall.outcome.body.m, "risk_score", Num(10)).t
                        = "num") =>
                    /\ "success" \in DOMAIN Result.m
                    /\ Result.m["success"] = Bool(TRUE)
                    /\ "error" \notin DOMAIN Result.m
                    /\ Result.m["risk_score"] =
                          Get(LastCall.outcome.body.m, "risk_score", Num(10))

\* C5 witness: the first attempt timed out, the second got a 200 with a
\* risk_score, and the success result was returned.
C5_Witness ==
    /\ pc = "done"
    /\ request.endpoint = "predict_v2"
    /\ Len(calls) = 2
    /\ calls[1].outcome = TimedOut
    /\ calls[2].outcome =
          Http(200, JObj([prediction |-> Num(100), risk_score |-> Num(55)]))
    /\ Result.m["success"] = Bool(TRUE)
    /\ Result.m["risk_level"] = Str("MEDIUM")

\* The assessment a 200 body maps to when the predictor dispatches on the
\* fields present: a numeric risk_score re-bucketed by the thresholds, else
\* the binary prediction mapped to 0.9 / HIGH or 0.1 / LOW.
DispatchRule(m) ==
    IF "risk_score" \in DOMAIN m /\ m["risk_score"].t = "num"
    THEN [risk_score |-> m["risk_score"],
          risk_level |-> Str(IF m["risk_score"].n > 70 THEN "HIGH"
                             ELSE IF m["risk_score"].n > 40 THEN "MEDIUM"
                             ELSE "LOW")]
    ELSE IF "prediction" \in DOMAIN m /\ m["prediction"] = Str("Fraud")
         THEN [risk_score |-> Num(90), risk_level |-> Str("HIGH")]
         ELSE [risk_score |-> Num(10), risk_level |-> Str("LOW")]

\* C6: on a 200 whose body carries a prediction or a numeric risk_score,
\* predict.py and predict_v2.py return the assessment of the shape present.
C6_ResponseShapeDispatch ==
    (/\ Delivered(Normalizing)
     /\ LastCall.outcome.kind = "http"
     /\ LastCall.outcome.code = 200
     /\ LastCall.outcome.body.t = "obj"
     /\ \/ "prediction" \in DOMAIN LastCall.outcome.body.m
        \/ /\ "risk_score" \in DOMAIN LastCall.outcome.body.m
           /\ LastCall.outcome.body.m["risk_score"].t = "num") =>
        LET want == DispatchRule(LastCall.outcome.body.m)
        IN  /\ Result.m["risk_score"] = want.risk_score
            /\ Result.m["risk_level"] = want.risk_level

\* C7: every GET and POST a handler served ended with status 200, exactly
\* one JSON object written, and no exception leaving the handler method.
C7_NoCrash ==
    (pc \in {"done", "crashed"} /\ request.method \in {"GET", "POST"}) =>
        /\ escaped = "none"
        /\ status = 200
        /\ Len(written) = 1
        /\ written[1].t = "obj"

\* C8: when the last upstream attempt of predict.py or predict_v2.py timed
\* out, the returned assessment has timeout = true, a risk_score, a
\* risk_level and an explanation, and no error field.
C8_TimeoutNeverAFailure ==
    (Delivered(Normalizing) /\ LastCall.outcome.kind = "timeout") =>
        /\ Result.t = "obj"
        /\ {"timeout", "risk_score", "risk_level", "explanation"}
              \subseteq DOMAIN Result.m
        /\ Result.m["timeout"] = Bool(TRUE)
        /\ "error" \notin DOMAIN Result.m

\* An upstream attempt failed without timing out: a transport error, a
\* status other than 200, or a 200 whose body is no JSON.
Failed(o) ==
    \/ o.kind = "connerr"
    \/ o.kind = "http" /\ o.code # 200
    \/ o.kind = "http" /\ o.code = 200 /\ o.body.t = "notjson"

\* C9: an upstream attempt of a predictor that failed without timing out is
\* the last one of its request, and predict returns risk_score 0.5, level
\* MEDIUM and an error field, whatever the transaction.
C9_NonTimeoutFailureTerminal ==
    (pc \in {"attempt1", "attempt2", "done"}
     /\ request.endpoint \in Predictors) =>
        \A i \in DOMAIN calls :
            Failed(calls[i].outcome) =>
                /\ i = Len(calls)
                /\ pc = "done"
                /\ Len(written) = 1
                /\ Result.t = "obj"
                /\ {"error", "risk_score", "risk_level"} \subseteq DOMAIN Result.m
                /\ Result.m["risk_score"] = Num(50)
                /\ Result.m["risk_level"] = Str("MEDIUM")

\* C9 witness: the retry of predict_v2.py for a large contract transaction
\* ended in a transport error and the flat assessment was returned.
C9_Witness ==
    /\ pc = "done"
    /\ request.endpoint = "predict_v2"
    /\ Len(calls) = 2
    /\ calls[2].outcome = ConnectionFailed
    /\ calls[2].payload.m["is_contract_interaction"] = Bool(TRUE)
    /\ calls[2].payload.m["transaction_value"] = Num(1500)
    /\ Result.m["risk_score"] = Num(50)
    /\ "error" \in DOMAIN Result.m

\* C10: every object a predictor returned after an upstream answer has a
\* numeric risk_score in [0.0, 1.0] and a risk_level among the five levels.
C10_ScoreAndLevelRange ==
    Delivered(Predictors) =>
        \A i \in DOMAIN written :
            /\ written[i].t = "obj"
            /\ {"risk_score", "risk_level"} \subseteq DOMAIN written[i].m
            /\ written[i].m["risk_score"].t = "num"
            /\ written[i].m["risk_score"].n >= 0
            /\ written[i].m["risk_score"].n <= 100
            /\ written[i].m["risk_level"].t = "str"
            /\ written[i].m["risk_level"].s \in Levels


\* predict of endpoint set eps returned an object, which do_POST wrote.
Returned(eps) ==
    /\ pc = "done"
    /\ request.method = "POST"
    /\ request.endpoint \in eps
    /\ LoadsError(request.body) = "none"

\* C11: every object predict returned, in every predictor and on every
\* path, has an explanation that is a string.
C11_ExplanationAlwaysPresent ==
    Returned(Predictors) =>
        /\ Result.t = "obj"
        /\ "explanation" \in DOMAIN Result.m
        /\ Result.m["explanation"].t \in {"str", "fstr"}

\* C12: every object predict.py returned, whatever the upstream outcome, has
\* the three fields risk_score, risk_level and factors.
C12_ExpectedFieldsV1 ==
    Returned({"predict"}) =>
        /\ Result.t = "obj"
        /\ {"risk_score", "risk_level", "factors"} \subseteq DOMAIN Result.m

\* The fixed text of an error field: an f-string without the values
\* formatted into it, or the string itself.
ErrorKind(e) == IF e.t = "fstr" THEN e.fmt ELSE e.s

\* What predictor ep returns for a transport failure and for a status
\* other than 200.
TransportFailureOf(ep) ==
    CASE ep = "predict" -> RespondV1(ConnectionFailed)
      [] ep = "predict_new" -> RespondNew(ConnectionFailed)
      [] ep = "predict_v2" -> RequestErrorResult("ConnectionError")
StatusFailureOf(ep) ==
    CASE ep = "predict" -> RespondV1(Http(500, NotJson))
      [] ep = "predict_new" -> RespondNew(Http(500, NotJson))
      [] ep = "predict_v2" -> RespondV2(Http(500, NotJson))

\* C13: the object a predictor returns for a 200 whose body is no JSON
\* reports an error of another kind than the one it reports for a transport
\* failure and than the one it reports for a status other than 200.
C13_InvalidResponseDistinct ==
    (/\ Delivered(Predictors)
     /\ LastCall.outcome.kind = "http"
     /\ LastCall.outcome.code = 200
     /\ LastCall.outcome.body.t = "notjson") =>
        /\ "error" \in DOMAIN Result.m
        /\ ErrorKind(Result.m["error"]) #
              ErrorKind(TransportFailureOf(request.endpoint).m["error"])
        /\ ErrorKind(Result.m["error"]) #
              ErrorKind(StatusFailureOf(request.endpoint).m["error"])


-----------------------------------------------------------------------------
(* Two requests in a row, the first one's assessment remembered *)

\* Transactions on each branch of the timeout fallback of predict_v2.py:
\* with and without a contract interaction, value below and above 10.
ScoredBodies ==
    {JObj(Obj([from_address |-> Addr, to_address |-> Addr,
               transaction_value |-> tv, is_contract_interaction |-> ci])) :
        tv \in {Num(100), Num(1500)}, ci \in {Absent, Bool(TRUE)}}

\* v is an object with a number as risk_score and a level as risk_level.
Scored(v) ==
    /\ v.t = "obj"
    /\ {"risk_score", "risk_level"} \subseteq DOMAIN v.m
    /\ v.m["risk_score"].t = "num"
    /\ v.m["risk_level"].t = "str"
    /\ v.m["risk_level"].s \in Levels

\* Close, with the assessment predict returned remembered.
Remember ==
    /\ earlier = Nil
    /\ Returned(Predictors)
    /\ Scored(Result)
    /\ pc' = "idle"
    /\ request' = Nil
    /\ ml_request' = Nil
    /\ calls' = <<>>
    /\ status' = 0
    /\ written' = <<>>
    /\ escaped' = "none"
    /\ earlier' = [endpoint |-> request.endpoint,
                   risk_score |-> Result.m["risk_score"].n,
                   risk_level |-> Result.m["risk_level"].s]

NextCompared ==
    \/ /\ Ready
       /\ \E ep \in Predictors, b \in ScoredBodies :
            DoPostPredict(ep, "valid", b)
    \/ \E o \in UpstreamOutcomes : ReplyV1(o)
    \/ \E o \in UpstreamOutcomes : ReplyNew(o)
    \/ \E o \in UpstreamOutcomes : ReplyFirstV2(o)
    \/ \E o \in UpstreamOutcomes : ReplyRetryV2(o)
    \/ Remember
    \/ Close

SpecCompared == Init /\ [][NextCompared]_vars

LevelRank(l) ==
    CASE l = "LOW" -> 0
      [] l = "MEDIUM-LOW" -> 1
      [] l = "MEDIUM" -> 2
      [] l = "MEDIUM-HIGH" -> 3
      [] l = "HIGH" -> 4

\* C14: of two assessments the same predictor returned, the ones with the
\* same risk_score have the same risk_level, and the one with the higher
\* risk_score has no lower risk_level in the order LOW < MEDIUM-LOW <
\* MEDIUM < MEDIUM-HIGH < HIGH.
C14_LevelFollowsScore ==
    (/\ earlier # Nil
     /\ Returned({earlier.endpoint})
     /\ Scored(Result)) =>
        LET score == Result.m["risk_score"].n
            level == Result.m["risk_level"].s
        IN  /\ score = earlier.risk_score => level = earlier.risk_level
            /\ score > earlier.risk_score =>
                   LevelRank(level) >= LevelRank(earlier.risk_level)
            /\ score < earlier.risk_score =>
                   LevelRank(level) <= LevelRank(earlier.risk_level)


-----------------------------------------------------------------------------
(* Progress *)

\* A requests.post given timeout=t returns or raises within its timeout, so
\* the step that ends a pending post of a predictor is always taken.  The
\* post of analyze_transaction has no timeout: nothing makes it end while
\* the upstream keeps the connection open and sends nothing, so ReplyAnalyze
\* has no fairness.
FairSpec ==
    /\ Spec
    /\ WF_vars(\E o \in UpstreamOutcomes : ReplyV1(o))
    /\ WF_vars(\E o \in UpstreamOutcomes : ReplyNew(o))
    /\ WF_vars(\E o \in UpstreamOutcomes : ReplyFirstV2(o))
    /\ WF_vars(\E o \in UpstreamOutcomes : ReplyRetryV2(o))

\* A POST handler is blocked in an upstream call.
Blocked == pc \in {"attempt1", "attempt2", "analyze"}

\* C15: every upstream call that was made had a timeout, and every POST
\* blocked in an upstream call eventually has its response written.
C15_EveryPostResponds ==
    /\ [](\A i \in DOMAIN calls : calls[i].timeout > NoTimeout)
    /\ (Blocked ~> (pc = "done" /\ Len(written) > 0))

====
